---- MODULE Spec2Model ----
(***************************************************************************)
(* yubistack.ykval: the OTP validation core (Validator.verify), the sync   *)
(* engine (Sync.sync_local / Sync.sync_remote) and the counter and queue   *)
(* tables they share (DBH), as a state machine.                            *)
(*                                                                         *)
(* A cluster of replicas, each with its own yubikeys table (store) and     *)
(* outbox (queue).  A verify call is a sequential process whose database   *)
(* statements are the atomic steps; calls interleave freely.  A sibling    *)
(* fetch is a thread of the call that makes the sibling run sync_local.    *)
(***************************************************************************)
EXTENDS Integers, Sequences, FiniteSets, TLC

VARIABLES
    settings,       \* configuration: SYNC_SERVERS of each replica, SYNC_LEVEL
    now,            \* int(time.time())
    store,          \* store[r]: the yubikeys table of replica r, by yk_publicname
    queue,          \* queue[r]: the rows of the queue table of replica r
    validator,      \* validator[r]: the sync_level attribute of r's Validator object
    pc,             \* pc[c]: position of verify call c
    params,         \* params[c]: the arguments of call c
    local_params,   \* local_params[c]: the record read in step 3
    otp_params,     \* otp_params[c]: build_otp_params' result
    req_answers,    \* req_answers[c]: the quorum computed by replicate
    fetch,          \* fetch[c][s]: the _fetch_remote thread of call c to sibling s
    dqueue,         \* dqueue[c]: the queue.Queue the threads put responses on
    responses,      \* responses[c]: the responses sync_remote collected
    nparsed,        \* nparsed[c]: responses handled by the parse loop so far
    valid_answers,  \* valid_answers[c]
    rowcount,       \* rowcount[c]: rows changed by the UPDATE of validate_otp
    result,         \* result[c]: status of the finished call
    response        \* response[c]: the response verify returned

vars == <<settings, now, store, queue, validator, pc, params, local_params,
          otp_params, req_answers, fetch, dqueue, responses, nparsed,
          valid_answers, rowcount, result, response>>

-----------------------------------------------------------------------------
(* The cluster, the keys and the requests the clients send. *)

\* The replicas, and the URLs their SYNC_SERVERS lists name: C is a sibling
\* that is configured on A and is down.
Replicas == {"A", "B"}
Unreachable == {"C"}
Servers == Replicas \cup Unreachable
Keys == {"k1"}
Calls == {"c1", "c2"}

None == "None"
\* An optional integer argument: <<>> is Python's None, <<v>> the value v.
Absent == <<>>
Given(v) == <<v>>
NULL == <<>>
ZeroNonce == "0000000000000000"
Nonces == {"n1", "n2"}

\* Latest wall clock second.
MaxTime == 1
Times == 0..MaxTime

\* An OTP: the string itself, its leading public name (otp[:-TOKEN_LEN]) and
\* what the KSM decrypts it to.
Token(k, ctr, use, low) ==
    [otp |-> <<k, ctr, use, low>>, yk_publicname |-> k,
     counter |-> ctr, use |-> use, high |-> 0, low |-> low]

\* The OTPs of the key: the first of session 1, a second one of that session
\* stamped 50 s later by the token's clock, and the first of session 2.
First == Token("k1", 1, 0, 0)
Second == Token("k1", 1, 1, 400)
Replugged == Token("k1", 2, 0, 0)
OTPs == {First, Second, Replugged}

\* The text of a string argument, as far as check_parameters looks at it: the
\* character body repeated len times, then the character tail (or nothing).
\* "c" is a ModHex letter, "a" an alphanumeric that is not ModHex, "!" neither,
\* "\n" a newline.
Str(body, len, tail) == [body |-> body, len |-> len, tail |-> tail]
StrLen(s) == s.len + (IF s.tail = "" THEN 0 ELSE 1)
ModHex == {"c"}
Alnum == {"c", "a"}

\* re.match('^[...]+$', s): one or more characters of the class up to the
\* end of the string, where $ also matches before a newline that ends it.
ReMatch(s, class) ==
    /\ s.len >= 1 => s.body \in class
    /\ \/ s.tail = "" /\ s.len >= 1
       \/ s.tail \in class
       \/ s.tail = "\n" /\ s.len >= 1

\* A client_id argument: None, an integer, or a string that is no integer.
NoClient == [kind |-> "none"]
IntId(v) == [kind |-> "int", v |-> v]
StrId == [kind |-> "str"]
\* Python's truth value of it.
TruthyId(x) == x.kind = "str" \/ (x.kind = "int" /\ x.v # 0)

\* What the KSM side answers to decode_otp: the in-process decryptor, or the
\* answers of the URLs of YKKSM_SERVERS in list order.
Answer(status, ctype, body) == [status |-> status, ctype |-> ctype, body |-> body]
NativeKsm == [native |-> TRUE, servers |-> <<>>]
RemoteKsm(answers) == [native |-> FALSE, servers |-> answers]
JsonOk == Answer(200, "application/json", "json")
TextOk == Answer(200, "text/plain", "OK k=v")
ServerError == Answer(500, "text/plain", "ERR")

\* A 44 letter ModHex OTP and a 16 letter alphanumeric nonce.
GoodOtpText == Str("c", 44, "")
GoodNonceText == Str("a", 16, "")

Request(otp, nonce, sl) ==
    [otp |-> otp, otp_text |-> GoodOtpText, nonce |-> nonce,
     nonce_text |-> GoodNonceText, sync_level |-> sl, client_id |-> NoClient,
     timestamp |-> 0, ksm |-> NativeKsm]

\* The requests the clients send: c1 goes to replica A with nonce n1, an
\* explicit sync level and an OTP of session 1; c2 to either replica with
\* the same nonce or another one, with a sync level or without, and any OTP.
ReplicasFor(c) == IF c = "c1" THEN {"A"} ELSE Replicas
NoncesFor(c) == IF c = "c1" THEN {"n1"} ELSE Nonces
SyncLevelsFor(c) == IF c = "c1" THEN {Given(0), Given(100)} ELSE {Absent, Given(100)}
OTPsFor(c) == IF c = "c1" THEN {First, Second} ELSE OTPs

\* The configurations: SYNC_SERVERS of each replica (a pair of replicas that
\* list each other, or A listing a third sibling as well) and the default
\* SYNC_LEVEL.
Pair == [A |-> <<"B">>, B |-> <<"A">>]
Triple == [A |-> <<"B", "C">>, B |-> <<"A">>]
Settings ==
    { [SYNC_SERVERS |-> Pair, SYNC_LEVEL |-> 50],
      [SYNC_SERVERS |-> Triple, SYNC_LEVEL |-> 0],
      [SYNC_SERVERS |-> Triple, SYNC_LEVEL |-> 50] }

Range(s) == {s[i] : i \in DOMAIN s}

-----------------------------------------------------------------------------
(* utils: counter comparison on the pair (yk_counter, yk_use). *)

counters_eq(a, b) ==
    a.yk_counter = b.yk_counter /\ a.yk_use = b.yk_use

counters_gt(a, b) ==
    \/ a.yk_counter > b.yk_counter
    \/ (a.yk_counter = b.yk_counter /\ a.yk_use > b.yk_use)

counters_gte(a, b) == counters_gt(a, b) \/ counters_eq(a, b)

\* Python's truth value of an optional integer argument: None and 0 are false.
Truthy(x) == x # Absent /\ x[1] # 0

\* Python 3 round(n * level / 100.0): to the nearest integer, a tie to the
\* even one.
PyRound(n, level) ==
    LET q == (n * level) \div 100
        r == (n * level) % 100
    IN  IF r > 50 \/ (r = 50 /\ q % 2 = 1) THEN q + 1 ELSE q

-----------------------------------------------------------------------------
(* DBH: the statements on the yubikeys and queue tables. *)

\* A made-up record whose counters start at 0.
SentinelFromZero(k) ==
    [active |-> 1, modified |-> -1, yk_publicname |-> k, yk_counter |-> 0,
     yk_use |-> 0, yk_low |-> 0, yk_high |-> 0, nonce |-> ZeroNonce]

\* The record get_local_params makes up for a key that has no row.
Sentinel(k) ==
    [active |-> 1, modified |-> -1, yk_publicname |-> k, yk_counter |-> -1,
     yk_use |-> -1, yk_low |-> -1, yk_high |-> -1, nonce |-> ZeroNonce]

HasRow(tbl, k) == k \in DOMAIN tbl

\* An INSERT that does not bind the active column and leaves it 0.
add_new_identity_inactive(tbl, identity) ==
    [k \in DOMAIN tbl \cup {identity.yk_publicname} |->
        IF k = identity.yk_publicname THEN [identity EXCEPT !.active = 0] ELSE tbl[k]]

\* INSERT INTO yubikeys.
add_new_identity(tbl, identity) ==
    [k \in DOMAIN tbl \cup {identity.yk_publicname} |->
        IF k = identity.yk_publicname THEN identity ELSE tbl[k]]

\* A WHERE clause that compares the two columns one by one and not as a pair.
UpdateAppliesEitherColumn(row, p) ==
    row.yk_counter < p.yk_counter \/ row.yk_use < p.yk_use

\* The WHERE clause of update_db_counters for the row of the key.
UpdateApplies(row, p) ==
    \/ row.yk_counter < p.yk_counter
    \/ (row.yk_counter = p.yk_counter /\ row.yk_use < p.yk_use)

\* UPDATE yubikeys SET ... WHERE yk_publicname = .. AND (counter, use) below.
update_db_counters(tbl, p) ==
    IF HasRow(tbl, p.yk_publicname) /\ UpdateApplies(tbl[p.yk_publicname], p)
    THEN [tbl EXCEPT ![p.yk_publicname] =
            [@ EXCEPT !.modified = p.modified,
                      !.yk_counter = p.yk_counter,
                      !.yk_use = p.yk_use,
                      !.yk_low = p.yk_low,
                      !.yk_high = p.yk_high,
                      !.nonce = p.nonce]]
    ELSE tbl

\* The row enqueue inserts: the info column binds the OTP's parameters (the
\* sync message) and the local counters.
\* An INSERT that stores the nonce of zeros in place of the server nonce.
QueueRow_without_nonce(op, lp, server, server_nonce, t) ==
    [queued |-> Given(t), modified |-> op.modified, otp |-> op.otp,
     server |-> server, server_nonce |-> ZeroNonce, info |-> op,
     local_counter |-> lp.yk_counter, local_use |-> lp.yk_use]

QueueRow(op, lp, server, server_nonce, t) ==
    [queued |-> Given(t), modified |-> op.modified, otp |-> op.otp,
     server |-> server, server_nonce |-> server_nonce, info |-> op,
     local_counter |-> lp.yk_counter, local_use |-> lp.yk_use]

get_queue(q, modified, server_nonce) ==
    {row \in q : row.modified = modified /\ row.server_nonce = server_nonce}

\* A DELETE that leaves the server out of its WHERE clause.
remove_from_queue_any_server(q, server, modified, server_nonce) ==
    {row \in q : ~(row.modified = modified /\ row.server_nonce = server_nonce)}

remove_from_queue(q, server, modified, server_nonce) ==
    {row \in q : ~(row.server = server /\ row.modified = modified
                   /\ row.server_nonce = server_nonce)}

\* An UPDATE that leaves the server nonce out of its WHERE clause.
null_queue_every_nonce(q, server_nonce) ==
    {[row EXCEPT !.queued = NULL] : row \in q}

null_queue(q, server_nonce) ==
    {IF row.server_nonce = server_nonce THEN [row EXCEPT !.queued = NULL]
     ELSE row : row \in q}

-----------------------------------------------------------------------------
(* Validator.verify *)

\* int(time.time()): the clock never runs backwards; a read returns the
\* last value read or a later one.
ClockRead(t) == t \in now..MaxTime /\ now' = t

\* generate_nonce(): a fresh value for every call, of 16 to 40 alphanumerics.
ServerNonce(c) == IF c = "c1" THEN "sn1" ELSE "sn2"
ServerNonceText == Str("a", 16, "")

build_otp_params(p, otp_info, t) ==
    [modified |-> t, otp |-> p.otp.otp, nonce |-> p.nonce,
     yk_publicname |-> p.otp.yk_publicname,
     yk_counter |-> otp_info.counter, yk_use |-> otp_info.use,
     yk_high |-> otp_info.high, yk_low |-> otp_info.low]


\* decode_otp: what the KSM returns for the OTP.
decode_otp(otp) ==
    [counter |-> otp.counter, use |-> otp.use, high |-> otp.high, low |-> otp.low]

\* TOKEN_LEN and OTP_MAX_LEN.
TOKEN_LEN == 32
OTP_MAX_LEN == 48

\* check_parameters on the params of verify: "OK" when it returns, else the
\* error it raises.  timeout is the argument or SYNC_TIMEOUT, integers both.
check_parameters(p) ==
    IF TruthyId(p.client_id) /\ p.client_id.kind # "int"
        THEN "INVALID_PARAMETER(client_id)"
    ELSE IF ~(TOKEN_LEN <= StrLen(p.otp) /\ StrLen(p.otp) <= OTP_MAX_LEN)
        THEN "BAD_OTP"
    ELSE IF ~ReMatch(p.otp, ModHex)
        THEN "BAD_OTP"
    ELSE IF TruthyId(p.client_id) /\ StrLen(p.nonce) = 0
        THEN "MISSING_PARAMETER(nonce)"
    ELSE IF StrLen(p.nonce) # 0 /\ ~ReMatch(p.nonce, Alnum)
        THEN "INVALID_PARAMETER(nonce)"
    ELSE IF StrLen(p.nonce) # 0 /\ ~(16 <= StrLen(p.nonce) /\ StrLen(p.nonce) <= 40)
        THEN "INVALID_PARAMETER(nonce)"
    ELSE IF ~(0 <= p.sync_level /\ p.sync_level <= 100)
        THEN "INVALID_PARAMETER(sync_level)"
    ELSE "OK"

\* A KSM URL whose request raises (no connection, a timeout).
NoAnswer == Answer(0, "", "")
NoInfo == [counter |-> None]

\* decode_otp's loop over YKKSM_SERVERS from URL i on: the counters of the
\* answer it returns and that answer's position, or the error it raises.
RECURSIVE TryServers(_, _, _)
TryServers(answers, i, otp) ==
    IF i > Len(answers) THEN [status |-> "BAD_OTP", url |-> 0, info |-> NoInfo]
    ELSE LET a == answers[i]
             returned == [status |-> "OK", url |-> i, info |-> decode_otp(otp)]
             raised(e) == [status |-> e, url |-> 0, info |-> NoInfo]
         IN  IF a = NoAnswer THEN raised("ConnectionError")
             ELSE IF a.ctype = "application/json" /\ a.status = 200
                 THEN IF a.body = "json" THEN returned ELSE raised("ValueError")
             ELSE IF a.body \in {"OK k=v", "OK garbled"}
                 THEN IF a.body = "OK k=v" THEN returned ELSE raised("ValueError")
             ELSE TryServers(answers, i + 1, otp)

\* decode_otp with its choice of the KSM: the decryptor, the URLs, or none.
DecodeOutcome(ksm, otp) ==
    IF ksm.native THEN [status |-> "OK", url |-> 0, info |-> decode_otp(otp)]
    ELSE IF ksm.servers # <<>> THEN TryServers(ksm.servers, 1, otp)
    ELSE [status |-> "BACKEND_ERROR", url |-> 0, info |-> NoInfo]

\* A replay check that looks at the counters before it looks at the nonce.
validate_otp_counters_first(op, lp) ==
    IF counters_gte(lp, op) THEN "REPLAYED_OTP"
    ELSE IF counters_eq(lp, op) /\ lp.nonce = op.nonce THEN "REPLAYED_REQUEST"
    ELSE "OK"

\* A replay check that takes equal counters for a repeated request whatever
\* the nonce.
validate_otp_any_nonce(op, lp) ==
    IF counters_eq(lp, op) THEN "REPLAYED_REQUEST"
    ELSE IF counters_gte(lp, op) THEN "REPLAYED_OTP"
    ELSE "OK"

\* validate_otp's verdict on the record read in step 3.
validate_otp(op, lp) ==
    IF counters_eq(lp, op) /\ lp.nonce = op.nonce THEN "REPLAYED_REQUEST"
    ELSE IF counters_gte(lp, op) THEN "REPLAYED_OTP"
    ELSE "OK"

\* TS_ABS_TOLERANCE, and TS_SEC and TS_REL_TOLERANCE as fractions.
TS_ABS_TOLERANCE == 20
TsPerSec == 8
RelTolNum == 3
RelTolDen == 10

Abs(x) == IF x < 0 THEN -x ELSE x

\* phishing_test returns at once, before it reads the clock, when the
\* session counter advanced.
PhishingSkipped(op, lp) == op.yk_counter # lp.yk_counter

\* A test that raises on the absolute deviation alone.
phishing_test_absolute_only(op, lp, t) ==
    /\ ~PhishingSkipped(op, lp)
    /\ Abs(TsPerSec * (t - lp.modified)
             - ((op.yk_high * 65536 + op.yk_low) - (lp.yk_high * 65536 + lp.yk_low)))
         > TS_ABS_TOLERANCE * TsPerSec

\* phishing_test: TRUE iff it raises DELAYED_OTP, t being the clock it reads.
\* Times are kept in eighths of a second, so that (new_ts - old_ts) * TS_SEC
\* stays an integer.
phishing_test(op, lp, t) ==
    IF PhishingSkipped(op, lp) THEN FALSE
    ELSE LET new_ts == op.yk_high * 65536 + op.yk_low
             old_ts == lp.yk_high * 65536 + lp.yk_low
             elapsed == t - lp.modified
             deviation8 == Abs(TsPerSec * elapsed - (new_ts - old_ts))
             percentOver ==
                 IF elapsed = 0 THEN TRUE
                 ELSE IF elapsed > 0
                      THEN RelTolDen * deviation8 > RelTolNum * TsPerSec * elapsed
                      ELSE FALSE
         IN  deviation8 > TS_ABS_TOLERANCE * TsPerSec /\ percentOver

\* A classification that takes every response with counters not below the
\* OTP's for a proof of replay, whatever its nonce.
ProvesReplayGte(resp, op) == counters_gte(resp, op)

\* A classification that takes only higher counters for a replay.
ProvesReplayAbove(resp, op) == counters_gt(resp, op)

\* A sibling response proves replay (sync_remote's classification).
ProvesReplay(resp, op) ==
    \/ counters_gt(resp, op)
    \/ (counters_eq(resp, op) /\ resp.nonce # op.nonce)

NoParams == [otp |-> None]
NoResponse == [status |-> None]
NoRecord == [yk_publicname |-> None]
IdleThread == [st |-> "idle", msg |-> NoRecord, local |-> NoRecord]
\* A thread that has ended, with or without a response put on dqueue.
EndedThread(st) == [st |-> st, msg |-> NoRecord, local |-> NoRecord]

\* cursor.rowcount, an optional integer: absent while the statement has not
\* been executed.
NotExecuted == Absent

\* The rows an UPDATE changed, which update_db_counters does not look at.
RowCount(tbl, p) ==
    IF HasRow(tbl, p.yk_publicname) /\ UpdateApplies(tbl[p.yk_publicname], p)
    THEN Given(1) ELSE Given(0)

\* A test of the active flag that takes only a negative value for disabled.
InactiveWhenNegative(lp) == lp.active < 0

\* verify's test of the record's active flag.
Inactive(lp) == lp.active = 0

Disabled(k) == [Sentinel(k) EXCEPT !.active = 0]

\* The tables the cluster starts with: empty, or with the key provisioned as
\* de-activated on replica B.
InitialStores ==
    { [r \in Replicas |-> IF r \in D THEN [k \in Keys |-> Disabled(k)] ELSE <<>>]
        : D \in {{}, {"B"}} }

\* No call has started.
InitCalls ==
    /\ queue = [r \in Replicas |-> {}]
    /\ validator = [r \in Replicas |-> [sync_level |-> Absent]]
    /\ pc = [c \in Calls |-> "idle"]
    /\ params = [c \in Calls |-> NoParams]
    /\ local_params = [c \in Calls |-> NoRecord]
    /\ otp_params = [c \in Calls |-> NoRecord]
    /\ req_answers = [c \in Calls |-> 0]
    /\ fetch = [c \in Calls |-> [s \in Servers |-> IdleThread]]
    /\ dqueue = [c \in Calls |-> <<>>]
    /\ responses = [c \in Calls |-> <<>>]
    /\ nparsed = [c \in Calls |-> 0]
    /\ valid_answers = [c \in Calls |-> 0]
    /\ rowcount = [c \in Calls |-> NotExecuted]
    /\ result = [c \in Calls |-> None]
    /\ response = [c \in Calls |-> NoResponse]

Init ==
    /\ settings \in Settings
    /\ now = 0
    /\ store \in InitialStores
    /\ InitCalls

dbVars == <<store, queue>>
syncVars == <<req_answers, fetch, dqueue, responses, nparsed, valid_answers>>

\* replicate's return value: the function computes sync_level_success_rate
\* from valid_answers and the number of siblings n, and has no return
\* statement.
replicate_return(valid, n) == Absent

\* Step 6 for a call whose timestamp argument is not 1: the response.
OKResponse(c, valid) ==
    [status |-> "OK", otp |-> params[c].otp.otp, nonce |-> params[c].nonce,
     sl |-> replicate_return(valid, Len(settings.SYNC_SERVERS[params[c].replica])),
     timestamp |-> Absent, sessioncounter |-> Absent, sessionuse |-> Absent]

\* Step 6: with timestamp = 1 the response takes yk_high, yk_low, yk_counter
\* and yk_use from otp_info, whose keys are counter, use, high and low: the
\* lookup raises KeyError.
Step6(c) == IF params[c].timestamp = 1 THEN "KeyError" ELSE "OK"

\* The call ends by raising the error.
Return(c, status) ==
    /\ pc' = [pc EXCEPT ![c] = "done"]
    /\ result' = [result EXCEPT ![c] = status]
    /\ UNCHANGED response

\* The call ends with step 6: the OK response, or the error step 6 raises.
Respond(c, valid) ==
    /\ pc' = [pc EXCEPT ![c] = "done"]
    /\ result' = [result EXCEPT ![c] = Step6(c)]
    /\ response' = [response EXCEPT ![c] =
           IF Step6(c) = "OK" THEN OKResponse(c, valid) ELSE @]

\* verify, steps 1 and 2, for the request req sent to replica r: the
\* Validator's sync_level is set from the argument, a missing nonce is
\* replaced by the server nonce, the parameters are checked and the OTP is
\* decrypted.
Step12(c, r, req) ==
    LET level == IF Truthy(req.sync_level) THEN req.sync_level[1]
                 ELSE settings.SYNC_LEVEL
        given == req.nonce # None
        p == [client_id |-> req.client_id, otp |-> req.otp_text,
              nonce |-> IF given THEN req.nonce_text ELSE ServerNonceText,
              sync_level |-> level]
        checked == check_parameters(p)
        decoded == IF checked = "OK" THEN DecodeOutcome(req.ksm, req.otp)
                   ELSE [status |-> checked, url |-> 0, info |-> NoInfo]
    IN  /\ validator' = [validator EXCEPT ![r].sync_level = Given(level)]
        /\ params' = [params EXCEPT ![c] =
               [replica |-> r, otp |-> req.otp,
                nonce |-> IF given THEN req.nonce ELSE ServerNonce(c),
                sync_level |-> req.sync_level, otp_info |-> decoded.info,
                timestamp |-> req.timestamp, client_id |-> req.client_id,
                otp_text |-> req.otp_text,
                nonce_arg |-> IF given THEN req.nonce_text ELSE Str("", 0, ""),
                ksm |-> req.ksm, ksm_url |-> decoded.url]]
        /\ IF decoded.status # "OK"
           THEN Return(c, decoded.status)
           ELSE /\ pc' = [pc EXCEPT ![c] = "select"]
                /\ UNCHANGED <<result, response>>

\* A verify call starts, with a well-formed request.
VerifyStart(c) ==
    /\ pc[c] = "idle"
    /\ \E r \in ReplicasFor(c), otp \in OTPsFor(c), nonce \in NoncesFor(c),
          sl \in SyncLevelsFor(c) :
         Step12(c, r, Request(otp, nonce, sl))
    /\ UNCHANGED <<settings, now, dbVars, local_params, otp_params, syncVars, rowcount>>

\* verify, step 3, get_local_params: the SELECT.
VerifySelect(c) ==
    /\ pc[c] = "select"
    /\ LET r == params[c].replica
           k == params[c].otp.yk_publicname
       IN  IF HasRow(store[r], k)
           THEN /\ local_params' = [local_params EXCEPT ![c] = store[r][k]]
                /\ pc' = [pc EXCEPT ![c] = "validate"]
           ELSE /\ local_params' = [local_params EXCEPT ![c] = Sentinel(k)]
                /\ pc' = [pc EXCEPT ![c] = "insert"]
    /\ UNCHANGED <<settings, now, dbVars, validator, params, otp_params, syncVars, rowcount, result, response>>

\* get_local_params on a miss: add_new_identity's INSERT.  yk_publicname is
\* the table's key: when another call has inserted the row meanwhile the
\* statement fails and the database error ends the call.
VerifyInsert(c) ==
    /\ pc[c] = "insert"
    /\ LET r == params[c].replica
           k == params[c].otp.yk_publicname
       IN  IF HasRow(store[r], k)
           THEN /\ Return(c, "DB_ERROR")
                /\ UNCHANGED store
           ELSE /\ store' = [store EXCEPT ![r] = add_new_identity(@, local_params[c])]
                /\ pc' = [pc EXCEPT ![c] = "validate"]
                /\ UNCHANGED <<result, response>>
    /\ UNCHANGED <<settings, now, queue, validator, params, local_params, otp_params,
                   syncVars, rowcount>>

\* verify, step 3: the active flag, build_otp_params and validate_otp with
\* its update_db_counters.
VerifyValidate(c) ==
    /\ pc[c] = "validate"
    /\ LET r == params[c].replica
           lp == local_params[c]
       IN  IF Inactive(lp)
           THEN /\ Return(c, "DISABLED_TOKEN")
                /\ UNCHANGED <<now, store, otp_params, rowcount>>
           ELSE \E t \in Times :
                LET op == build_otp_params(params[c], params[c].otp_info, t)
                IN  /\ ClockRead(t)
                    /\ otp_params' = [otp_params EXCEPT ![c] = op]
                    /\ IF validate_otp(op, lp) # "OK"
                       THEN /\ Return(c, validate_otp(op, lp))
                            /\ UNCHANGED <<store, rowcount>>
                       ELSE /\ store' = [store EXCEPT ![r] = update_db_counters(@, op)]
                            /\ rowcount' = [rowcount EXCEPT ![c] = RowCount(store[r], op)]
                            /\ pc' = [pc EXCEPT ![c] = "replicate"]
                            /\ UNCHANGED <<result, response>>
    /\ UNCHANGED <<settings, queue, validator, params, local_params, syncVars>>

\* replicate's verdict on sync_remote's metrics: whether it raises, and what.
ReplicateOutcome(req, valid, answers) ==
    IF req # 0 /\ valid # req
    THEN IF valid # answers THEN "REPLAYED_OTP" ELSE "NOT_ENOUGH_ANSWERS"
    ELSE "OK"

\* The rest of the call once its last statement on the yubikeys table is
\* done: sync_remote's null_queue on the outbox q (when sync_remote ran),
\* replicate's verdict, step 5 and the response.
Finish(c, q, req, valid, answers) ==
    /\ queue' = [queue EXCEPT ![params[c].replica] =
           IF req # 0 THEN null_queue(q, ServerNonce(c)) ELSE q]
    /\ IF ReplicateOutcome(req, valid, answers) # "OK"
       THEN Return(c, ReplicateOutcome(req, valid, answers)) /\ UNCHANGED now
       ELSE IF PhishingSkipped(otp_params[c], local_params[c])
       THEN Respond(c, valid) /\ UNCHANGED now
       ELSE \E t \in Times :
               /\ ClockRead(t)
               /\ IF phishing_test(otp_params[c], local_params[c], t)
                  THEN Return(c, "DELAYED_OTP")
                  ELSE Respond(c, valid)

\* replicate: one outbox row per sibling and the quorum.  With a quorum,
\* sync_remote reads the rows back and starts a fetch thread for each; the
\* siblings in down are unreachable and their threads end without a response.
\* Without one the call goes on to its end.
VerifyReplicate(c) ==
    /\ pc[c] = "replicate"
    /\ LET r == params[c].replica
           servers == settings.SYNC_SERVERS[r]
           rows == {QueueRow(otp_params[c], local_params[c], servers[i],
                             ServerNonce(c), now) : i \in DOMAIN servers}
           q == queue[r] \cup rows
           req == PyRound(Len(servers), validator[r].sync_level[1])
           mine == get_queue(q, otp_params[c].modified, ServerNonce(c))
       IN  /\ req_answers' = [req_answers EXCEPT ![c] = req]
           /\ IF req # 0
              THEN /\ \E down \in SUBSET Range(servers) :
                        /\ Unreachable \cap Range(servers) \subseteq down
                        /\ fetch' = [fetch EXCEPT ![c] =
                             [s \in Servers |->
                                IF \E row \in mine : row.server = s
                                THEN IF s \in down THEN EndedThread("failed")
                                     ELSE [st |-> "started",
                                           msg |-> (CHOOSE row \in mine :
                                                        row.server = s).info,
                                           local |-> NoRecord]
                                ELSE @[s]]]
                   /\ queue' = [queue EXCEPT ![r] = q]
                   /\ pc' = [pc EXCEPT ![c] = "collect"]
                   /\ UNCHANGED <<now, result, response>>
              ELSE /\ Finish(c, q, 0, 0, 0)
                   /\ UNCHANGED fetch
    /\ UNCHANGED <<settings, store, validator, params, local_params, otp_params,
                   dqueue, responses, nparsed, valid_answers, rowcount>>

\* sync_remote's collection loop takes a response off dqueue and deletes the
\* sibling's outbox row.
Collect(c) ==
    /\ pc[c] = "collect"
    /\ Len(responses[c]) < req_answers[c]
    /\ dqueue[c] # <<>>
    /\ LET r == params[c].replica
           resp == Head(dqueue[c])
       IN  /\ responses' = [responses EXCEPT ![c] = Append(@, resp)]
           /\ dqueue' = [dqueue EXCEPT ![c] = Tail(@)]
           /\ queue' = [queue EXCEPT ![r] =
                  remove_from_queue(@, resp.server, otp_params[c].modified, ServerNonce(c))]
    /\ UNCHANGED <<settings, now, store, validator, pc, params, local_params, otp_params,
                   req_answers, fetch, nparsed, valid_answers, rowcount, result, response>>

\* A collection loop that goes on until it has the responses it requires.
LoopEnd_without_deadline(c) ==
    /\ pc[c] = "collect"
    /\ Len(responses[c]) >= req_answers[c]
    /\ IF responses[c] = <<>>
       THEN Finish(c, queue[params[c].replica], req_answers[c], 0, 0)
       ELSE /\ pc' = [pc EXCEPT ![c] = "parse"]
            /\ UNCHANGED <<now, queue, result, response>>
    /\ UNCHANGED <<settings, store, validator, params, local_params, otp_params,
                   syncVars, rowcount>>

\* The collection loop ends: enough responses, or the deadline of 1.5 x
\* timeout has passed.  With no response collected the parse loop is empty
\* and the call goes on to its end.
LoopEnd(c) ==
    /\ pc[c] = "collect"
    /\ \/ Len(responses[c]) >= req_answers[c]
       \/ Len(responses[c]) < req_answers[c]
    /\ IF responses[c] = <<>>
       THEN Finish(c, queue[params[c].replica], req_answers[c], 0, 0)
       ELSE /\ pc' = [pc EXCEPT ![c] = "parse"]
            /\ UNCHANGED <<now, queue, result, response>>
    /\ UNCHANGED <<settings, store, validator, params, local_params, otp_params,
                   syncVars, rowcount>>

\* sync_remote's parse loop, one response: the response's counters are
\* applied to the local table and the response is classified.  After the
\* last response, or at the break, the call goes on to its end.
Parse(c) ==
    /\ pc[c] = "parse"
    /\ LET r == params[c].replica
           resp == responses[c][nparsed[c] + 1].params
           valid == IF ProvesReplay(resp, otp_params[c])
                    THEN valid_answers[c] ELSE valid_answers[c] + 1
           break == ~ProvesReplay(resp, otp_params[c]) /\ valid = req_answers[c]
       IN  /\ store' = [store EXCEPT ![r] = update_db_counters(@, resp)]
           /\ valid_answers' = [valid_answers EXCEPT ![c] = valid]
           /\ nparsed' = [nparsed EXCEPT ![c] = @ + 1]
           /\ IF break \/ nparsed[c] + 1 = Len(responses[c])
              THEN Finish(c, queue[r], req_answers[c], valid, Len(responses[c]))
              ELSE UNCHANGED <<now, queue, pc, result, response>>
    /\ UNCHANGED <<settings, validator, params, local_params, otp_params,
                   req_answers, fetch, dqueue, responses, rowcount>>

-----------------------------------------------------------------------------
(* Sync.sync_local, run by sibling s for the fetch thread of call c. *)

\* The keys a sync message must have, in the order check_sync_input looks
\* for them, and those of them that must hold an integer.
REQUIRED_PARAMS ==
    <<"modified", "otp", "nonce", "yk_publicname",
      "yk_counter", "yk_use", "yk_high", "yk_low">>
NumericParams == {"modified", "yk_counter", "yk_use", "yk_high", "yk_low"}

\* A sync message as sync_local receives it is a record of the keys it has.
\* The numeric keys that came with a text that is neither an integer nor
\* '-1' are not fields of the record: the message lists them in a field
\* text (a message without such keys has no field text).
TextKeys(msg) == IF "text" \in DOMAIN msg THEN msg.text ELSE {}
HasKey(msg, key) == key \in DOMAIN msg \/ key \in TextKeys(msg)

\* A check of the keys that does not look at what they hold.
RECURSIVE check_sync_input_keys_only(_, _)
check_sync_input_keys_only(msg, i) ==
    IF i > Len(REQUIRED_PARAMS) THEN "OK"
    ELSE IF ~HasKey(msg, REQUIRED_PARAMS[i])
        THEN "MISSING_PARAMETER(" \o REQUIRED_PARAMS[i] \o ")"
    ELSE check_sync_input_keys_only(msg, i + 1)

\* check_sync_input from key i of REQUIRED_PARAMS on: "OK" when it returns,
\* else the error it raises at the first key that is missing or is numeric
\* and holds no integer.
RECURSIVE check_sync_input(_, _)
check_sync_input(msg, i) ==
    IF i > Len(REQUIRED_PARAMS) THEN "OK"
    ELSE IF ~HasKey(msg, REQUIRED_PARAMS[i])
        THEN "MISSING_PARAMETER(" \o REQUIRED_PARAMS[i] \o ")"
    ELSE IF REQUIRED_PARAMS[i] \in NumericParams /\ REQUIRED_PARAMS[i] \in TextKeys(msg)
        THEN "INVALID_PARAMETER(" \o REQUIRED_PARAMS[i] \o ")"
    ELSE check_sync_input(msg, i + 1)

\* check_sync_input, then get_local_params selects the row.
SyncSelect(c, s) ==
    /\ fetch[c][s].st = "started"
    /\ LET msg == fetch[c][s].msg
           checked == check_sync_input(msg, 1)
       IN  fetch' = [fetch EXCEPT ![c][s] =
               IF checked # "OK" THEN EndedThread(checked)
               ELSE IF HasRow(store[s], msg.yk_publicname)
               THEN [@ EXCEPT !.st = "sl_update", !.local = store[s][msg.yk_publicname]]
               ELSE [@ EXCEPT !.st = "sl_insert", !.local = Sentinel(msg.yk_publicname)]]
    /\ UNCHANGED <<settings, now, dbVars, validator, pc, params, local_params, otp_params,
                   req_answers, dqueue, responses, nparsed, valid_answers, rowcount, result, response>>

\* get_local_params on a miss: the INSERT, which fails with a database
\* error when the row exists now (yk_publicname is the table's key).
SyncInsert(c, s) ==
    /\ fetch[c][s].st = "sl_insert"
    /\ LET k == fetch[c][s].msg.yk_publicname
       IN  IF HasRow(store[s], k)
           THEN /\ fetch' = [fetch EXCEPT ![c][s] = EndedThread("DB_ERROR")]
                /\ UNCHANGED store
           ELSE /\ store' = [store EXCEPT ![s] = add_new_identity(@, fetch[c][s].local)]
                /\ fetch' = [fetch EXCEPT ![c][s].st = "sl_update"]
    /\ UNCHANGED <<settings, now, queue, validator, pc, params, local_params, otp_params,
                   req_answers, dqueue, responses, nparsed, valid_answers, rowcount, result, response>>

\* A sync_local that returns the record as update_db_counters left it.
sync_local_returns_updated(read, updated) == updated

\* What sync_local returns: local_params, the record get_local_params read
\* before update_db_counters ran, not the record as the UPDATE left it.
sync_local_returns(read, updated) == read

\* update_db_counters(sync_params), then DISABLED_TOKEN for a de-activated
\* key, else the record read before the update is returned.  _fetch_remote
\* puts a response it got with status 200 on dqueue ("put"); a response that
\* is lost or late for requests.get's timeout is dropped ("failed").
SyncUpdate(c, s) ==
    /\ fetch[c][s].st = "sl_update"
    /\ store' = [store EXCEPT ![s] = update_db_counters(@, fetch[c][s].msg)]
    /\ IF fetch[c][s].local.active = 0
       THEN /\ fetch' = [fetch EXCEPT ![c][s] = EndedThread("DISABLED_TOKEN")]
            /\ UNCHANGED dqueue
       ELSE \E arrives \in BOOLEAN :
              IF arrives
              THEN /\ fetch' = [fetch EXCEPT ![c][s] = EndedThread("put")]
                   /\ dqueue' = [dqueue EXCEPT ![c] =
                          Append(@, [server |-> s, params |->
                              sync_local_returns(fetch[c][s].local,
                                  store'[s][fetch[c][s].msg.yk_publicname])])]
              ELSE /\ fetch' = [fetch EXCEPT ![c][s] = EndedThread("failed")]
                   /\ UNCHANGED dqueue
    /\ UNCHANGED <<settings, now, queue, validator, pc, params, local_params, otp_params,
                   req_answers, responses, nparsed, valid_answers, rowcount, result, response>>

Next ==
    \/ \E c \in Calls :
        \/ VerifyStart(c)
        \/ VerifySelect(c)
        \/ VerifyInsert(c)
        \/ VerifyValidate(c)
        \/ VerifyReplicate(c)
        \/ Collect(c)
        \/ LoopEnd(c)
        \/ Parse(c)
        \/ \E s \in Replicas :
            \/ SyncSelect(c, s)
            \/ SyncInsert(c, s)
            \/ SyncUpdate(c, s)

Spec == Init /\ [][Next]_vars

-----------------------------------------------------------------------------
(* Step 5 alone: one call on a replica without siblings, for a key whose
   record was left by an earlier OTP some time ago. *)

\* A replica with no sync servers: every quorum is 0.
Standalone == [SYNC_SERVERS |-> [A |-> <<>>, B |-> <<>>], SYNC_LEVEL |-> 50]

\* A verify call starts on replica r with one of the requests reqs.
Submit(c, r, reqs) ==
    /\ pc[c] = "idle"
    /\ \E req \in reqs : Step12(c, r, req)
    /\ UNCHANGED <<settings, now, dbVars, local_params, otp_params, syncVars, rowcount>>

\* An OTP with both halves of the token's 8 Hz timestamp.
Stamped(k, ctr, use, high, low) ==
    [otp |-> <<k, ctr, use, high, low>>, yk_publicname |-> k,
     counter |-> ctr, use |-> use, high |-> high, low |-> low]

\* The record of key k after the first OTP of session 1, stamped low by the
\* token and accepted at time modified (in seconds, the call starting at 0).
Seen(k, modified, low) ==
    [active |-> 1, modified |-> modified, yk_publicname |-> k, yk_counter |-> 1,
     yk_use |-> 0, yk_low |-> low, yk_high |-> 0, nonce |-> "n2"]

\* Replica A has no row for the key, or the row of an OTP accepted 100, 70,
\* 20 or 0 seconds ago whose token timestamp was 0 or the last value before
\* the low half wraps.
PhishingStores ==
    {[r \in Replicas |-> <<>>]}
    \cup {[r \in Replicas |-> IF r = "A" THEN [k \in Keys |-> Seen(k, m, low)] ELSE <<>>]
            : m \in {-100, -70, -20, 0}, low \in {0, 65535}}

\* The next OTP of session 1 with a token timestamp 0 to 75 s on, or past
\* the wrap of the low half; or the first OTP of session 2.
PhishingRequests ==
    {Request(Stamped("k1", 1, 1, high, low), "n1", Absent)
        : high \in {0, 1}, low \in {0, 160, 161, 560, 600}}
    \cup {Request(Replugged, "n1", Absent)}

InitPhishing ==
    /\ settings = Standalone
    /\ now = 0
    /\ store \in PhishingStores
    /\ InitCalls

NextPhishing ==
    \/ Submit("c1", "A", PhishingRequests)
    \/ VerifySelect("c1")
    \/ VerifyInsert("c1")
    \/ VerifyValidate("c1")
    \/ VerifyReplicate("c1")

SpecPhishing == InitPhishing /\ [][NextPhishing]_vars

-----------------------------------------------------------------------------
(* Steps 1, 2 and 6: one call on a replica without siblings, over requests
   of every shape and every configuration of the KSM. *)

\* The ids of the active rows of the clients table.
Clients == {1}

ClientIds == {NoClient, IntId(1), IntId(7), IntId(0), IntId(-1), StrId}

\* OTP texts of 31, 32, 48 and 49 ModHex letters, of 32 letters and a
\* newline, and of 44 characters the last of which is not ModHex.
OtpTexts ==
    {Str("c", 31, ""), Str("c", 32, ""), Str("c", 48, ""), Str("c", 49, ""),
     Str("c", 32, "\n"), Str("c", 43, "a"), Str("c", 43, "!")}

\* Nonce texts of 15, 16, 40 and 41 alphanumerics, of 16 and a newline, and
\* of 17 characters the last of which is not alphanumeric.
NonceTexts ==
    {Str("a", 15, ""), Str("a", 16, ""), Str("a", 40, ""), Str("a", 41, ""),
     Str("a", 16, "\n"), Str("a", 16, "!")}

\* The KSM: the decryptor; no KSM at all; or URLs that answer well, fail,
\* or answer something decode_otp cannot parse, in several orders.
BadJson == Answer(200, "application/json", "not json")
GarbledText == Answer(200, "text/plain", "OK garbled")
ErrorWithOkText == Answer(500, "text/plain", "OK k=v")
Ksms ==
    {NativeKsm, RemoteKsm(<<>>), RemoteKsm(<<JsonOk>>), RemoteKsm(<<TextOk, JsonOk>>),
     RemoteKsm(<<ServerError, TextOk>>), RemoteKsm(<<ServerError, ServerError>>),
     RemoteKsm(<<BadJson, JsonOk>>), RemoteKsm(<<GarbledText, TextOk>>),
     RemoteKsm(<<ErrorWithOkText>>), RemoteKsm(<<NoAnswer, JsonOk>>)}

\* The verify calls: the first OTP of the key with any client_id, OTP text,
\* nonce (none, or n1 with any text), timestamp argument and KSM.
Requests ==
    {[Request(Stamped("k1", 1, 0, high, 5), nonce[1], Absent) EXCEPT
          !.client_id = id, !.otp_text = otp_text, !.nonce_text = nonce[2],
          !.timestamp = ts, !.ksm = ksm]
        : id \in ClientIds, otp_text \in OtpTexts,
          nonce \in {<<None, Str("", 0, "")>>} \cup {<<"n1", t>> : t \in NonceTexts},
          ts \in {0, 1, 2}, ksm \in Ksms, high \in {0, 1}}

InitRequest ==
    /\ settings = Standalone
    /\ now = 0
    /\ store = [r \in Replicas |-> <<>>]
    /\ InitCalls

NextRequest ==
    \/ Submit("c1", "A", Requests)
    \/ VerifySelect("c1")
    \/ VerifyInsert("c1")
    \/ VerifyValidate("c1")
    \/ VerifyReplicate("c1")

SpecRequest == InitRequest /\ [][NextRequest]_vars

-----------------------------------------------------------------------------
(* sync_local alone: sibling B serves a sync message, and then the same
   message once more, one request at a time. *)

\* The sync message of an OTP validated with the nonce at time t.
SyncMessage(otp, nonce, t) ==
    build_otp_params([otp |-> otp, nonce |-> nonce], decode_otp(otp), t)

\* The message without the keys, and with the numeric keys holding a text
\* that is no integer.
Without(msg, keys) == [key \in DOMAIN msg \ keys |-> msg[key]]
WithText(msg, keys) ==
    [key \in (DOMAIN msg \ keys) \cup {"text"} |->
        IF key = "text" THEN keys ELSE msg[key]]

WellFormed ==
    {SyncMessage(otp, nonce, t) : otp \in OTPs, nonce \in Nonces, t \in Times}

\* Messages that lack one key or two, hold a text in one numeric key or in
\* two, or both lack a key and hold a text.
Malformed ==
    LET msg == SyncMessage(Second, "n1", 0)
    IN  {Without(msg, {key}) : key \in DOMAIN msg}
        \cup {Without(msg, {"nonce", "yk_low"}), Without(msg, {"otp", "modified"})}
        \cup {WithText(msg, {key}) : key \in NumericParams}
        \cup {WithText(msg, {"yk_use", "yk_high"})}
        \cup {WithText(Without(msg, {"yk_use"}), {"modified"}),
              WithText(Without(msg, {"nonce"}), {"yk_low"})}

\* Sibling B has no row for the key, the row of the first OTP of session 1
\* or of session 2, active or de-activated, or a de-activated row that has
\* seen no OTP.
SyncStores ==
    {[r \in Replicas |-> <<>>]}
    \cup {[r \in Replicas |->
              IF r = "B"
              THEN [k \in Keys |-> [Seen(k, 0, 0) EXCEPT !.active = a, !.yk_counter = ctr]]
              ELSE <<>>] : a \in {0, 1}, ctr \in {1, 2}}
    \cup {[r \in Replicas |-> IF r = "B" THEN [k \in Keys |-> Disabled(k)] ELSE <<>>]}

\* The fetch thread of call c reaches sibling s with one of the messages.
Deliver(c, s, msgs) ==
    /\ fetch[c][s].st = "idle"
    /\ \E msg \in msgs :
         /\ fetch' = [fetch EXCEPT ![c][s] = [st |-> "started", msg |-> msg, local |-> NoRecord]]
         /\ otp_params' = [otp_params EXCEPT ![c] = msg]
    /\ UNCHANGED <<settings, now, dbVars, validator, pc, params, local_params,
                   req_answers, dqueue, responses, nparsed, valid_answers, rowcount,
                   result, response>>

\* The states of a thread whose sync_local is running.
Running == {"started", "sl_insert", "sl_update"}

\* The message of c1 is sent again, by c2, once sync_local is done with it.
DeliverAgain ==
    /\ fetch["c1"]["B"].st \notin Running \cup {"idle"}
    /\ Deliver("c2", "B", {otp_params["c1"]})

InitSync ==
    /\ settings = Standalone
    /\ now = 0
    /\ store \in SyncStores
    /\ InitCalls

NextSync ==
    \/ Deliver("c1", "B", WellFormed \cup Malformed)
    \/ DeliverAgain
    \/ \E c \in Calls :
        \/ SyncSelect(c, "B")
        \/ SyncInsert(c, "B")
        \/ SyncUpdate(c, "B")

SpecSync == InitSync /\ [][NextSync]_vars

\* The steps sync_remote runs itself, in the thread of the verify call: the
\* wall clock passes the deadline of the collection loop whatever the fetch
\* threads do, and the parse loop runs through the responses.  The fetch
\* threads are daemon threads no statement waits for, and the siblings are
\* other machines: nothing is assumed of their steps.
Fairness == \A c \in Calls : WF_vars(LoopEnd(c)) /\ WF_vars(Parse(c))

\* Two replicas that list each other, with empty tables.
InitPair ==
    /\ settings = [SYNC_SERVERS |-> Pair, SYNC_LEVEL |-> 50]
    /\ now = 0
    /\ store = [r \in Replicas |-> <<>>]
    /\ InitCalls

FairSpec == InitPair /\ [][Next]_vars /\ Fairness

-----------------------------------------------------------------------------
(* Sync.resync_local: calls on a replica whose table holds two keys. *)

\* Strings of at most 16 ModHex letters, standing for public names: two the
\* table may hold and one it never holds.  "K!" is no such string.
PublicNames == {"k1", "k2", "k9"}

\* The yk parameter of a resync request: missing, 'all', a name, or "K!".
YkParams == {None, "all", "K!"} \cup PublicNames

\* check_resync_input: "OK" when it returns, else the error it raises.
check_resync_input(yk) ==
    IF yk = None THEN "MISSING_PARAMETER(yk)"
    ELSE IF yk \notin PublicNames \cup {"all"} THEN "INVALID_PARAMETER(yk)"
    ELSE "OK"

\* get_keys: the rows SELECT yk_publicname ... WHERE active = 1 returns,
\* each a row of one column.
get_keys(tbl, yk) ==
    {<<k>> : k \in {n \in DOMAIN tbl : tbl[n].active = 1 /\ (yk = "all" \/ n = yk)}}

\* resync_local hands each row of get_keys, not the name in it, to
\* get_local_params, which binds it as the parameter of its SELECT.  What a
\* database driver does with a row for a parameter is not defined: it
\* renders it as the value in it and the SELECT finds the key ("value"),
\* or it rejects the statement ("rejected").
Bindings == {"value", "rejected"}

\* The OTP resync_local fakes, and the sync message enqueue builds from the
\* record, which resync_local passes as OTP parameters and as local ones.
FakeOtp == Str("c", 32, "")
ResyncMessage(lp) ==
    [modified |-> lp.modified, otp |-> FakeOtp, nonce |-> lp.nonce,
     yk_publicname |-> lp.yk_publicname, yk_counter |-> lp.yk_counter,
     yk_use |-> lp.yk_use, yk_high |-> lp.yk_high, yk_low |-> lp.yk_low]

\* resync_local, a call c on replica r: the rows it enqueues for the keys.
ResyncRows(c, r, keys, t) ==
    {QueueRow(ResyncMessage(store[r][key[1]]), store[r][key[1]], server,
              ServerNonce(c), t)
        : key \in keys, server \in Range(settings.SYNC_SERVERS[r])}

\* resync_local as a whole.  With a driver that rejects a row as parameter
\* the first get_local_params raises and nothing is enqueued.
ResyncLocal(c) ==
    /\ pc[c] = "idle"
    /\ \E r \in ReplicasFor(c), yk \in YkParams, binding \in Bindings, t \in Times :
         LET keys == get_keys(store[r], yk)
         IN  /\ params' = [params EXCEPT ![c] = [otp |-> None, replica |-> r, yk |-> yk]]
             /\ pc' = [pc EXCEPT ![c] = "done"]
             /\ IF check_resync_input(yk) # "OK"
                THEN /\ result' = [result EXCEPT ![c] = check_resync_input(yk)]
                     /\ UNCHANGED <<queue, now>>
                ELSE IF keys # {} /\ binding = "rejected"
                THEN /\ result' = [result EXCEPT ![c] = "DB_ERROR"]
                     /\ UNCHANGED <<queue, now>>
                ELSE /\ result' = [result EXCEPT ![c] = "OK"]
                     /\ IF keys # {} /\ settings.SYNC_SERVERS[r] # <<>>
                        THEN /\ ClockRead(t)
                             /\ queue' = [queue EXCEPT ![r] = @ \cup ResyncRows(c, r, keys, t)]
                        ELSE UNCHANGED <<queue, now>>
    /\ UNCHANGED <<settings, store, validator, local_params, otp_params, syncVars,
                   rowcount, response>>

\* The table of a replica: each of k1 and k2 has no row, an active row or a
\* de-activated one.
ResyncRow(k, a) == [Seen(k, 0, 0) EXCEPT !.active = a]
ResyncTables ==
    {[k \in names |-> ResyncRow(k, IF k \in off THEN 0 ELSE 1)]
        : names \in SUBSET {"k1", "k2"}, off \in SUBSET {"k1", "k2"}}

InitResync ==
    /\ settings \in Settings
    /\ now = 0
    /\ \E tbl \in ResyncTables : store = [r \in Replicas |-> tbl]
    /\ InitCalls

NextResync == \E c \in Calls : ResyncLocal(c)

SpecResync == InitResync /\ [][NextResync]_vars

-----------------------------------------------------------------------------
(* Properties. *)

Replayed == {"REPLAYED_OTP", "REPLAYED_REQUEST"}

\* Call c got past the replay check of step 3 and issued its UPDATE.
Updated(c) == rowcount[c] # NotExecuted

\* Calls c and d carry OTPs with the same (yk_counter, yk_use).
SameTuple(c, d) ==
    /\ params[c].otp_info.counter = params[d].otp_info.counter
    /\ params[c].otp_info.use = params[d].otp_info.use

\* (yk_counter, yk_use) of record a is below that of record b, as pairs.
PairBelow(a, b) ==
    \/ a.yk_counter < b.yk_counter
    \/ (a.yk_counter = b.yk_counter /\ a.yk_use < b.yk_use)

\* C1: counter monotonicity.  For every key the stored pair (yk_counter,
\* yk_use) never decreases: whatever the interleaving of verify, sync_remote
\* and sync_local, a step leaves each record as it is or replaces its pair
\* by a strictly greater one, and no record disappears.
C1_CountersNeverDecrease ==
    [][\A r \in Replicas : \A k \in DOMAIN store[r] :
          /\ k \in DOMAIN store'[r]
          /\ \/ store'[r][k] = store[r][k]
             \/ PairBelow(store[r][k], store'[r][k])]_vars

\* A record that a call wrote with an OTP of session 1 and that holds the
\* counters of session 2 now.
C1_Witness ==
    \E c \in Calls :
        /\ rowcount[c] = Given(1)
        /\ otp_params[c].yk_counter = 1
        /\ store[params[c].replica]["k1"].yk_counter = 2

\* C2: replay protection across the cluster.  For an OTP and a nonce at most
\* one verify call returns OK, on whichever replicas the calls run and
\* whatever their sync levels.
C2_AtMostOneAccept ==
    \A c, d \in Calls :
        (c # d /\ result[c] = "OK" /\ result[d] = "OK")
            => ~(params[c].otp = params[d].otp /\ params[c].nonce = params[d].nonce)

\* C3: concurrent verify calls on one Counter Store.  Two calls on the same
\* replica whose OTPs carry the same counter tuple never both return OK.
C3_OneWinnerPerStore ==
    \A c, d \in Calls :
        (c # d /\ pc[c] = "done" /\ pc[d] = "done"
              /\ params[c].replica = params[d].replica /\ SameTuple(c, d))
            => ~(result[c] = "OK" /\ result[d] = "OK")

\* C4: the UPDATE of an accepted OTP wrote.  Whenever verify returns OK the
\* OTP's tuple was strictly greater than the stored one when the call's
\* conditional update executed, so the statement changed the row.
C4_AcceptedMeansWritten ==
    \A c \in Calls : result[c] = "OK" => rowcount[c] = Given(1)

\* The record as the UPDATE of call c's validate_otp writes it.
WrittenBy(c) ==
    [active |-> 1, modified |-> otp_params[c].modified,
     yk_publicname |-> otp_params[c].yk_publicname,
     yk_counter |-> otp_params[c].yk_counter, yk_use |-> otp_params[c].yk_use,
     yk_low |-> otp_params[c].yk_low, yk_high |-> otp_params[c].yk_high,
     nonce |-> otp_params[c].nonce]

\* Call c ran the replay check of step 3.
Checked(c) == otp_params[c].yk_publicname # None

\* C5: the replay check of step 3.  With local the record the call read: equal
\* counters and equal nonce end the call in REPLAYED_REQUEST; otherwise a
\* local tuple greater than or equal to the OTP's ends it in REPLAYED_OTP;
\* otherwise the conditional update is issued.  Hence a repeat of an accepted
\* OTP on the same replica, reading the record as the accepted call wrote it,
\* gets REPLAYED_REQUEST with the same nonce and REPLAYED_OTP with another.
C5_ReplayCheck ==
    \A d \in Calls : Checked(d) =>
        LET lp == local_params[d]
            op == otp_params[d]
            same == counters_eq(lp, op) /\ lp.nonce = op.nonce
        IN  /\ same => (result[d] = "REPLAYED_REQUEST" /\ ~Updated(d))
            /\ (~same /\ counters_gte(lp, op))
                  => (result[d] = "REPLAYED_OTP" /\ ~Updated(d))
            /\ ~counters_gte(lp, op) => Updated(d)
            /\ \A c \in Calls \ {d} :
                  (result[c] = "OK" /\ rowcount[c] = Given(1)
                       /\ params[c].replica = params[d].replica
                       /\ params[c].otp = params[d].otp
                       /\ lp = WrittenBy(c))
                    => result[d] = IF params[d].nonce = params[c].nonce
                                   THEN "REPLAYED_REQUEST" ELSE "REPLAYED_OTP"

\* An accepted OTP and its repeat with the same nonce, on the same replica,
\* which read the record the accepted call wrote and got REPLAYED_REQUEST.
C5_Witness ==
    \E c, d \in Calls :
        /\ c # d /\ result[c] = "OK" /\ rowcount[c] = Given(1)
        /\ result[d] = "REPLAYED_REQUEST"
        /\ params[c].replica = params[d].replica
        /\ params[c].otp = params[d].otp
        /\ params[c].nonce = params[d].nonce
        /\ local_params[d] = WrittenBy(c)

\* C6, as claimed: once all calls have ended, a call that got
\* REPLAYED_REQUEST has a counterpart with the same OTP and nonce that
\* returned OK.
C6_ReplayedRequestAfterAccept ==
    \A d \in Calls :
        ((\A c \in Calls : pc[c] = "done") /\ result[d] = "REPLAYED_REQUEST")
            => \E c \in Calls \ {d} :
                  /\ result[c] = "OK"
                  /\ params[c].otp = params[d].otp
                  /\ params[c].nonce = params[d].nonce

\* C6: a call gets REPLAYED_REQUEST only if another verify call with the same
\* counters and the same nonce has passed its replay check and issued its
\* conditional update, whatever that call returns in the end.
C6_ReplayedRequestAfterSeen ==
    \A d \in Calls :
        result[d] = "REPLAYED_REQUEST"
            => \E c \in Calls \ {d} :
                  /\ Updated(c)
                  /\ SameTuple(c, d)
                  /\ params[c].nonce = params[d].nonce

\* A repeated request that got REPLAYED_REQUEST although the call that made
\* the OTP known ended in an error: no call returned OK.
C6_Witness ==
    \E c, d \in Calls :
        /\ c # d /\ result[d] = "REPLAYED_REQUEST"
        /\ Updated(c) /\ pc[c] = "done" /\ result[c] # "OK"
        /\ params[c].otp = params[d].otp
        /\ params[c].nonce = params[d].nonce

\* The outbox rows of call c, and the siblings whose response it collected.
OutboxOf(c) ==
    {row \in queue[params[c].replica] : row.server_nonce = ServerNonce(c)}

Collected(c) == {responses[c][i].server : i \in DOMAIN responses[c]}

C8_DisabledToken ==
    /\ [](\A c \in Calls :
            (pc[c] = "done" /\ local_params[c].yk_publicname # None
                 /\ local_params[c].active = 0)
              => /\ result[c] = "DISABLED_TOKEN"
                 /\ rowcount[c] = NotExecuted
                 /\ OutboxOf(c) = {}
                 /\ \A s \in Servers : fetch[c][s] = IdleThread)
    /\ [][\A c \in Calls :
            (pc'[c] # pc[c] /\ pc'[c] \in {"validate", "done"}
                 /\ local_params'[c].yk_publicname # None
                 /\ local_params'[c].active = 0)
              => (store' = store /\ queue' = queue /\ fetch' = fetch)]_vars

\* A call on the de-activated key of replica B that ended in DISABLED_TOKEN,
\* the record being as it was provisioned.
C8_Witness ==
    \E c \in Calls :
        /\ result[c] = "DISABLED_TOKEN"
        /\ local_params[c].active = 0
        /\ store[params[c].replica]["k1"] = Disabled("k1")

\* C9, as claimed: a call that is passed sync_level = 0 computes the quorum 0
\* and does not end in NOT_ENOUGH_ANSWERS, nor in a REPLAYED_OTP of step 4.
C9_ZeroLevelZeroQuorum ==
    \A c \in Calls :
        (pc[c] \in {"collect", "parse", "done"} /\ Updated(c)
             /\ params[c].sync_level = Given(0))
          => /\ req_answers[c] = 0
             /\ result[c] \notin {"NOT_ENOUGH_ANSWERS", "REPLAYED_OTP"}

Proving(c) ==
    {i \in DOMAIN responses[c] :
        LET resp == responses[c][i].params
            op == otp_params[c]
        IN  \/ resp.yk_counter > op.yk_counter
            \/ (resp.yk_counter = op.yk_counter /\ resp.yk_use > op.yk_use)
            \/ (resp.yk_counter = op.yk_counter /\ resp.yk_use = op.yk_use
                  /\ resp.nonce # op.nonce)}

\* C11: step 4 with a quorum Q > 0.  A collected response proves replay iff
\* its counters are above the OTP's, or equal with another nonce, and is a
\* valid answer otherwise, however it compares with local_params.  The call
\* ends in REPLAYED_OTP iff a collected response proves replay, in
\* NOT_ENOUGH_ANSWERS iff none does and fewer than Q are valid, and gets
\* past step 4 iff Q valid answers were collected.
C11_QuorumVerdict ==
    \A c \in Calls :
        (pc[c] = "done" /\ Updated(c) /\ req_answers[c] > 0) =>
            LET valid == Cardinality(DOMAIN responses[c] \ Proving(c))
            IN  /\ valid_answers[c] = valid
                /\ result[c] = "REPLAYED_OTP" <=> Proving(c) # {}
                /\ result[c] = "NOT_ENOUGH_ANSWERS"
                      <=> (Proving(c) = {} /\ valid < req_answers[c])
                /\ result[c] \in {"OK", "DELAYED_OTP", "KeyError"}
                      <=> valid = req_answers[c]

\* A call with a quorum that returned OK on the answer of a sibling whose
\* counters are above those of the local record the call read (the sibling
\* had seen an earlier OTP, this replica none): the answer was valid.
C11_Witness ==
    \E c \in Calls :
        /\ result[c] = "OK" /\ req_answers[c] >= 1
        /\ \E i \in DOMAIN responses[c] :
              /\ responses[c][i].params.yk_counter > local_params[c].yk_counter
              /\ responses[c][i].params.nonce # local_params[c].nonce

\* C12: step 5.  A call that got past step 4 ends in DELAYED_OTP iff the
\* OTP's session counter equals the local record's, the deviation between
\* the wall-clock time elapsed since the record was modified and the token's
\* timestamp delta (at 1/8 s a tick) is above 20 s, and the deviation is
\* above 0.3 of the elapsed time, the ratio being 1 when no time elapsed.
\* When the session counter advanced, first sighting included, the test is
\* skipped.  (One call: now is the time step 5 read, if it read the clock.)
C12_DelayedOtp ==
    \A c \in Calls :
        (pc[c] = "done" /\ result[c] \in {"OK", "DELAYED_OTP"}) =>
            LET op == otp_params[c]
                lp == local_params[c]
                elapsed == now - lp.modified
                ticks == (op.yk_high * 65536 + op.yk_low)
                           - (lp.yk_high * 65536 + lp.yk_low)
                deviation8 == IF 8 * elapsed >= ticks THEN 8 * elapsed - ticks
                              ELSE ticks - 8 * elapsed
            IN  result[c] = "DELAYED_OTP"
                  <=> /\ op.yk_counter = lp.yk_counter
                      /\ deviation8 > 20 * 8
                      /\ \/ elapsed = 0
                         \/ elapsed > 0 /\ 10 * deviation8 > 3 * 8 * elapsed

\* A call that ended in DELAYED_OTP 101 s after the record was modified, the
\* token having counted 70 s: deviation 31 s, above 0.3 of 101 s.
C12_Witness ==
    \E c \in Calls :
        /\ pc[c] = "done" /\ result[c] = "DELAYED_OTP"
        /\ now - local_params[c].modified = 101
        /\ otp_params[c].yk_low - local_params[c].yk_low = 560

\* C13: every OK response carries sl = 100 x valid_answers / N, with
\* valid_answers the valid sibling answers step 4 of the call counted and N
\* the number of configured siblings (0 when replication was advisory).
C13_SuccessRate ==
    \A c \in Calls :
        result[c] = "OK" =>
            /\ response[c].sl # Absent
            /\ response[c].sl[1] * Len(settings.SYNC_SERVERS[params[c].replica])
                 = 100 * valid_answers[c]

\* C14: a call with timestamp = 1 whose OTP passes steps 1 to 5 returns an
\* OK response that also holds timestamp = (yk_high << 16) | yk_low,
\* sessioncounter = yk_counter and sessionuse = yk_use of the decrypted OTP;
\* with another timestamp value the OK response holds none of the three.
C14_TimestampFields ==
    \A c \in Calls :
        (pc[c] = "done" /\ result[c] \in {"OK", "KeyError"}) =>
            IF params[c].timestamp = 1
            THEN /\ result[c] = "OK"
                 /\ response[c].timestamp
                      = Given(params[c].otp.high * 65536 + params[c].otp.low)
                 /\ response[c].sessioncounter = Given(params[c].otp.counter)
                 /\ response[c].sessionuse = Given(params[c].otp.use)
            ELSE /\ response[c].timestamp = Absent
                 /\ response[c].sessioncounter = Absent
                 /\ response[c].sessionuse = Absent

\* The OTP text of call c is 32 to 48 ModHex letters, its nonce text (if
\* a nonce was sent) 16 to 40 alphanumerics, and the KSM decrypts.
GoodOtp(c) == params[c].otp_text \in {Str("c", 32, ""), Str("c", 48, "")}
GoodNonce(c) == params[c].nonce_arg \in {Str("a", 16, ""), Str("a", 40, "")}
NoNonce(c) == params[c].nonce_arg = Str("", 0, "")
GoodKsm(c) == params[c].ksm = NativeKsm

\* The client_id of call c is an integer with no active row in clients.
UnknownClient(c) ==
    /\ params[c].client_id.kind = "int"
    /\ params[c].client_id.v > 0
    /\ params[c].client_id.v \notin Clients

\* C15: a call with a client_id that has no active client record (and an
\* otherwise well-formed request) ends in NO_SUCH_CLIENT, never in OK, and
\* leaves the counters of the OTP's public name as they were.
C15_NoSuchClient ==
    \A c \in Calls :
        (pc[c] = "done" /\ UnknownClient(c)
           /\ GoodOtp(c) /\ GoodNonce(c) /\ GoodKsm(c)) =>
            /\ result[c] = "NO_SUCH_CLIENT"
            /\ \A r \in Replicas : store[r] = <<>>

\* A call without client_id and without nonce that returned OK used the
\* server nonce in the replay check, the stored record and the response.
ServerNonceUsed(c) ==
    /\ otp_params[c].nonce = ServerNonce(c)
    /\ store[params[c].replica][params[c].otp.yk_publicname].nonce = ServerNonce(c)
    /\ response[c].nonce = ServerNonce(c)

\* C16: a call with a client_id and without a nonce ends in
\* MISSING_PARAMETER (nonce) in step 1 and changes no state; a call without
\* client_id and without nonce proceeds, with the generated server nonce in
\* place of the client nonce in the replay check, the stored record and the
\* response.
C16_MissingNonce ==
    \A c \in Calls :
        (pc[c] = "done" /\ NoNonce(c) /\ GoodOtp(c) /\ GoodKsm(c)) =>
            IF params[c].client_id = IntId(1)
            THEN /\ result[c] = "MISSING_PARAMETER(nonce)"
                 /\ \A r \in Replicas : store[r] = <<>> /\ queue[r] = {}
            ELSE params[c].client_id = NoClient =>
                    /\ result[c] \in {"OK", "KeyError"}
                    /\ result[c] = "OK" => ServerNonceUsed(c)

\* C17: a call with a supplied client_id that is not a positive integer
\* (zero, a negative integer, a value that is no integer) ends in
\* INVALID_PARAMETER in step 1, before decryption and before any access to
\* the counter store.
C17_ClientIdPositive ==
    \A c \in Calls :
        (/\ pc[c] # "idle"
         /\ params[c].client_id # NoClient
         /\ ~(params[c].client_id.kind = "int" /\ params[c].client_id.v > 0)) =>
            /\ pc[c] = "done"
            /\ result[c] = "INVALID_PARAMETER(client_id)"
            /\ params[c].otp_info = NoInfo
            /\ \A r \in Replicas : store[r] = <<>>

\* The string has a character that is not of the class.
HasOutside(s, class) ==
    \/ s.len >= 1 /\ s.body \notin class
    \/ s.tail # "" /\ s.tail \notin class

\* C18: step 1 rejects, before decrypting and before touching the store, an
\* OTP of a length outside 32..48 or with a character outside ModHex with
\* BAD_OTP, and a supplied nonce of a length outside 16..40 or that is not
\* alphanumeric with INVALID_PARAMETER; an OTP of 32..48 ModHex letters
\* with a nonce of 16..40 alphanumerics passes step 1.  (Requests without
\* client_id, whose check comes first.)
C18_Step1Rejects ==
    \A c \in Calls :
        (pc[c] # "idle" /\ params[c].client_id = NoClient) =>
            LET otp == params[c].otp_text
                nonce == params[c].nonce_arg
                rejected(error) ==
                    /\ pc[c] = "done" /\ result[c] = error
                    /\ params[c].otp_info = NoInfo
                    /\ \A r \in Replicas : store[r] = <<>>
            IN  IF ~(32 <= StrLen(otp) /\ StrLen(otp) <= 48) \/ HasOutside(otp, ModHex)
                THEN rejected("BAD_OTP")
                ELSE IF /\ ~NoNonce(c)
                        /\ \/ ~(16 <= StrLen(nonce) /\ StrLen(nonce) <= 40)
                           \/ HasOutside(nonce, Alnum)
                THEN rejected("INVALID_PARAMETER(nonce)")
                ELSE GoodKsm(c) => params[c].otp_info # NoInfo

\* A KSM URL answers successfully: status 200 and a body that parses.
AnswersWell(a) == a \in {JsonOk, TextOk}

\* C19: with remote KSMs, decode_otp tries the URLs in list order and
\* returns the counters of the first that answers successfully, a URL that
\* answers with a non-200 status or an unparsable body making it go on to
\* the next; when every URL has failed the call ends in BAD_OTP and when
\* no KSM is configured in BACKEND_ERROR, in both cases with no counter
\* record and no outbox row written.
C19_KsmFailover ==
    \A c \in Calls :
        (/\ pc[c] # "idle" /\ ~params[c].ksm.native
         /\ params[c].client_id = NoClient /\ GoodOtp(c)
         /\ (NoNonce(c) \/ GoodNonce(c))) =>
            LET answers == params[c].ksm.servers
                good == {i \in DOMAIN answers : AnswersWell(answers[i])}
                untouched == \A r \in Replicas : store[r] = <<>> /\ queue[r] = {}
            IN  IF good # {}
                THEN /\ params[c].ksm_url = CHOOSE i \in good : \A j \in good : i <= j
                     /\ params[c].otp_info = decode_otp(params[c].otp)
                     /\ pc[c] = "done" => result[c] \in {"OK", "KeyError"}
                ELSE /\ pc[c] = "done"
                     /\ result[c] = IF answers = <<>> THEN "BACKEND_ERROR" ELSE "BAD_OTP"
                     /\ untouched

\* Records a and b hold the same (yk_counter, yk_use).
SameTupleAs(a, b) == a.yk_counter = b.yk_counter /\ a.yk_use = b.yk_use

\* sync_local of sibling s, run for call c, returns in this step, and its
\* response reaches the caller.
SyncReturns(c, s) == fetch[c][s].st = "sl_update" /\ fetch'[c][s].st = "put"
Returned(c) == dqueue'[c][Len(dqueue'[c])].params

\* C20 as stated: sync_local on an active key returns the local record as
\* it stands after the conditional update: the sync message's counters,
\* nonce and modified when its (yk_counter, yk_use) is strictly above the
\* stored tuple, the unchanged stored values otherwise.
C20_ReturnsUpdatedRecord ==
    [][\A c \in Calls, s \in Replicas :
          SyncReturns(c, s) =>
              LET msg == fetch[c][s].msg
                  row == store[s][msg.yk_publicname]
              IN  IF UpdateApplies(row, msg)
                  THEN /\ Returned(c).yk_counter = msg.yk_counter
                       /\ Returned(c).yk_use = msg.yk_use
                       /\ Returned(c).nonce = msg.nonce
                       /\ Returned(c).modified = msg.modified
                  ELSE row = fetch[c][s].local => Returned(c) = row]_vars

\* C20, amended: sync_local on an active key returns the local record as it
\* read it before the conditional update.  When the sync message's
\* (yk_counter, yk_use) is strictly above the stored tuple the stored record
\* takes the message's counters, nonce and modified, and the returned
\* counters are the older ones, below the message's.
C20_ReturnsRecordRead ==
    [][\A c \in Calls, s \in Replicas :
          SyncReturns(c, s) =>
              LET msg == fetch[c][s].msg
                  row == store[s][msg.yk_publicname]
              IN  /\ Returned(c) = fetch[c][s].local
                  /\ UpdateApplies(row, msg) =>
                        /\ PairBelow(Returned(c), msg)
                        /\ SameTupleAs(store'[s][msg.yk_publicname], msg)
                        /\ store'[s][msg.yk_publicname].nonce = msg.nonce
                        /\ store'[s][msg.yk_publicname].modified = msg.modified]_vars

\* A response of a sibling, waiting on dqueue, whose counters are below those
\* of the OTP while the sibling's stored record holds the OTP's: sync_local
\* advanced the record and returned the one it had read.
C20_Witness ==
    \E c \in Calls : \E i \in DOMAIN dqueue[c] :
        LET resp == dqueue[c][i]
            row == store[resp.server][otp_params[c].yk_publicname]
        IN  /\ PairBelow(resp.params, otp_params[c])
            /\ SameTupleAs(row, otp_params[c])
            /\ row.nonce = otp_params[c].nonce

\* sync_local ended for the thread of call c at sibling B by raising an error.
Raised(c) == fetch[c]["B"].st \notin Running \cup {"idle", "put", "failed"}

\* C21: the same sync message applied to sync_local twice in a row.  No
\* step of the second application changes the counter store, creates a
\* record or a row of the outbox, and the second application raises an
\* error only if the first raised the same error.
C21_SyncLocalIdempotent ==
    /\ [][(fetch["c2"]["B"].st # "idle" \/ fetch'["c2"]["B"].st # "idle")
            => store' = store /\ queue' = queue]_vars
    /\ [](Raised("c2") => fetch["c2"]["B"].st = fetch["c1"]["B"].st)

\* The second application of a message that advanced the record of the key
\* the first time has returned, and so has that of a message for a
\* de-activated key, with DISABLED_TOKEN.
C21_Witness ==
    /\ fetch["c2"]["B"].st \in {"put", "DISABLED_TOKEN"}
    /\ store["B"] # <<>>
    /\ store["B"]["k1"].yk_counter = otp_params["c2"].yk_counter
    /\ store["B"]["k1"].yk_use = otp_params["c2"].yk_use
    /\ store["B"]["k1"].nonce = otp_params["c2"].nonce
    /\ store["B"]["k1"].modified = 1

\* The sync_local that sibling s runs for call c, its input having passed
\* validation, ends in this step.
SyncEnds(c, s) ==
    fetch[c][s].st \in {"sl_insert", "sl_update"} /\ fetch'[c][s].st \notin Running

\* C22: after every sync_local call whose input passes validation, one that
\* ends in DISABLED_TOKEN included, the stored (yk_counter, yk_use) of the
\* message's public name is not below the message's; for a de-activated
\* record the call ends in DISABLED_TOKEN with the update applied, and the
\* record stays de-activated.
C22_SyncLocalConverges ==
    [][\A c \in Calls, s \in Replicas :
          SyncEnds(c, s) =>
              LET msg == fetch[c][s].msg
                  row == store'[s][msg.yk_publicname]
              IN  /\ ~PairBelow(row, msg)
                  /\ store[s][msg.yk_publicname].active = 0 =>
                        /\ fetch'[c][s].st = "DISABLED_TOKEN"
                        /\ row.active = 0]_vars

\* The required keys the message lacks, and its first one in the order of
\* the list of required keys.
MissingKeys(msg) ==
    {"modified", "otp", "nonce", "yk_publicname",
     "yk_counter", "yk_use", "yk_high", "yk_low"} \ (DOMAIN msg \cup TextKeys(msg))
FirstMissing(msg) ==
    REQUIRED_PARAMS[CHOOSE i \in 1..8 :
        /\ REQUIRED_PARAMS[i] \in MissingKeys(msg)
        /\ \A j \in 1..(i - 1) : REQUIRED_PARAMS[j] \notin MissingKeys(msg)]

\* C23: sync_local given a message that lacks one of the eight required
\* keys ends in MISSING_PARAMETER naming the first missing key, and given a
\* numeric field that holds neither an integer nor '-1' ends in
\* INVALID_PARAMETER (naming such a field); a message with both defects
\* ends in one of the two.  No record is made up and no counter changes.
C23_SyncInputRejected ==
    [][\A c \in Calls, s \in Replicas :
          (fetch[c][s].st = "started" /\ fetch'[c][s] # fetch[c][s]
             /\ (MissingKeys(fetch[c][s].msg) # {} \/ TextKeys(fetch[c][s].msg) # {})) =>
              LET msg == fetch[c][s].msg
                  missing == "MISSING_PARAMETER(" \o FirstMissing(msg) \o ")"
                  invalid == {"INVALID_PARAMETER(" \o key \o ")" : key \in TextKeys(msg)}
              IN  /\ fetch'[c][s].st \in
                        IF TextKeys(msg) = {} THEN {missing}
                        ELSE IF MissingKeys(msg) = {} THEN invalid
                        ELSE invalid \cup {missing}
                  /\ store' = store /\ queue' = queue]_vars

\* sync_local has rejected a message without nonce and yk_low for its
\* missing nonce, and one whose yk_use holds a text for that.
C23_Witness ==
    \/ /\ fetch["c1"]["B"].st = "MISSING_PARAMETER(nonce)"
       /\ DOMAIN otp_params["c1"] = DOMAIN SyncMessage(First, "n1", 0) \ {"nonce", "yk_low"}
    \/ /\ fetch["c1"]["B"].st = "INVALID_PARAMETER(yk_use)"
       /\ "yk_high" \in TextKeys(otp_params["c1"])

\* C24: resync_local with yk = 'all' or a public name enqueues exactly one
\* outbox row for each pair (selected active key, configured sibling), all
\* under the call's server nonce and with the OTP of 32 'c'; de-activated
\* keys and unknown names give no row, and no counter record is created or
\* changed.
C24_ResyncEnqueues ==
    [][\A c \in Calls :
          (pc[c] = "idle" /\ pc'[c] = "done"
             /\ check_resync_input(params'[c].yk) = "OK") =>
              LET r == params'[c].replica
                  yk == params'[c].yk
                  selected == {k \in DOMAIN store[r] :
                                 store[r][k].active = 1 /\ (yk = "all" \/ k = yk)}
                  rows == {row \in queue'[r] : row.server_nonce = ServerNonce(c)}
              IN  /\ {<<row.info.yk_publicname, row.server>> : row \in rows}
                       = selected \X Range(settings.SYNC_SERVERS[r])
                  /\ Cardinality(rows)
                       = Cardinality(selected) * Len(settings.SYNC_SERVERS[r])
                  /\ \A row \in rows : row.otp = FakeOtp
                  /\ queue'[r] \ rows = queue[r]
                  /\ store' = store]_vars

\* C25: two calls (verify or sync_local) that look up at the same time a
\* public name with no record both obtain the sentinel and go on without
\* an error: a call that found no row and then runs its INSERT goes on to
\* its next step, whatever another call did between the two statements.
C25_FirstSightingRace ==
    [][/\ \A c \in Calls :
            (pc[c] = "insert" /\ pc'[c] # "insert") => pc'[c] = "validate"
       /\ \A c \in Calls, s \in Servers :
            (fetch[c][s].st = "sl_insert" /\ fetch'[c][s].st # "sl_insert")
                => fetch'[c][s].st = "sl_update"]_vars

\* The outbox rows of a replica that call c did not enqueue.
OtherRows(q, c) == {row \in q : row.server_nonce # ServerNonce(c)}

\* A step of call c's sync_remote, and the step at which it returns (the
\* call ends in the same step, replicate and the rest of verify having no
\* statement on the database).
SyncRemoteStep(c) ==
    /\ pc[c] \in {"collect", "parse"}
    /\ (pc'[c] # pc[c] \/ responses'[c] # responses[c] \/ nparsed'[c] # nparsed[c])
SyncRemoteReturns(c) == pc[c] \in {"collect", "parse"} /\ pc'[c] = "done"

\* C26: what sync_remote leaves behind.  The outbox row of each response it
\* collects is deleted; when it returns, after enough responses or at the
\* deadline, every response collected has been parsed and its counters
\* applied by the conditional update (the stored tuple is not below the
\* response's), and every outbox row left with the call's server nonce has
\* queued = NULL; no step of it changes a row with another server nonce.
C26_SyncRemoteFrame ==
    [][\A c \in Calls :
          LET r == params[c].replica
          IN  /\ SyncRemoteStep(c) =>
                    OtherRows(queue'[r], c) = OtherRows(queue[r], c)
              /\ (SyncRemoteStep(c) /\ Len(responses'[c]) > Len(responses[c])) =>
                    \A row \in queue'[r] :
                        ~(/\ row.server = responses'[c][Len(responses'[c])].server
                          /\ row.modified = otp_params[c].modified
                          /\ row.server_nonce = ServerNonce(c))
              /\ SyncRemoteReturns(c) =>
                    /\ nparsed'[c] = Len(responses'[c])
                    /\ \A i \in DOMAIN responses'[c] :
                          LET resp == responses'[c][i].params
                          IN  counters_gte(store'[r][resp.yk_publicname], resp)
                    /\ \A row \in queue'[r] :
                          row.server_nonce = ServerNonce(c) => row.queued = NULL]_vars

\* C26's case: a call has returned from sync_remote having collected a
\* response whose counters were above those of the record it had read, a
\* row of its own is left in the outbox, and so is a row of another call
\* that has not been set to NULL.
C26_Witness ==
    \E c \in Calls :
        /\ pc[c] = "done"
        /\ \E i \in DOMAIN responses[c] :
              counters_gt(responses[c][i].params, otp_params[c])
        /\ OutboxOf(c) # {}
        /\ \E row \in queue[params[c].replica] :
              row.server_nonce # ServerNonce(c) /\ row.queued # NULL

\* A response reaches the queue of call c's sync_remote after its
\* collection loop has ended.
DeliveredLate(c) == pc[c] \in {"parse", "done"} /\ Len(dqueue'[c]) > Len(dqueue[c])

\* C27: sync_remote returns.  A call in its collection loop comes to its
\* end, whether or not a sibling answers or a fetch thread completes.  Once
\* the loop has ended the responses collected stay as they are; a response
\* delivered afterwards changes neither the replica's table nor its outbox,
\* after the return the counts of answers and of valid answers and the
\* number of responses parsed stay as they are, and the outbox row of a
\* response left on the queue is still there.
C27_SyncRemoteReturns ==
    /\ \A c \in Calls : (pc[c] = "collect") ~> (pc[c] = "done")
    /\ [][\A c \in Calls :
            /\ pc[c] \in {"parse", "done"} => responses'[c] = responses[c]
            /\ pc[c] = "done" =>
                  valid_answers'[c] = valid_answers[c] /\ nparsed'[c] = nparsed[c]
            /\ DeliveredLate(c) =>
                  /\ store'[params[c].replica] = store[params[c].replica]
                  /\ queue'[params[c].replica] = queue[params[c].replica]]_vars
    /\ [](\A c \in Calls :
            pc[c] = "done" =>
                \A i \in DOMAIN dqueue[c] :
                    \E row \in OutboxOf(c) :
                        row.server = dqueue[c][i].server /\ row.queued = NULL)

\* C27's case: a call has returned from sync_remote with fewer answers than
\* it required, and a response that was delivered afterwards, with counters
\* above the stored ones, is on its queue.
C27_Witness ==
    \E c \in Calls :
        /\ pc[c] = "done"
        /\ Len(responses[c]) < req_answers[c]
        /\ \E i \in DOMAIN dqueue[c] :
              LET resp == dqueue[c][i].params
              IN  counters_gt(resp, store[params[c].replica][resp.yk_publicname])

\* The steps of verify a call can be at, in the order of the code, and the
\* steps that can follow each: 1 and 2 (sanitize, decrypt) lead from idle
\* to the SELECT of step 3 or to the end, step 3 goes through select,
\* insert and validate, step 4 through replicate, collect and parse, and
\* steps 5 and 6 are taken with the last of them.
StepsAfter(at) ==
    CASE at = "idle" -> {"select", "done"}
      [] at = "select" -> {"insert", "validate"}
      [] at = "insert" -> {"validate", "done"}
      [] at = "validate" -> {"replicate", "done"}
      [] at = "replicate" -> {"collect", "done"}
      [] at = "collect" -> {"parse", "done"}
      [] at = "parse" -> {"done"}
      [] OTHER -> {}

\* C28: the order of verify's steps.  A call moves from a step to a later
\* one only; it has outbox rows or fetch threads only if it passed the
\* replay check of step 3 and issued its update; a call that ends in steps
\* 1 to 3 leaves the tables and the outbox as they are and is not the call
\* that created the key's record; and when sync_remote starts, the outbox
\* holds one row of the call for each sibling, each with its fetch thread.
C28_StepOrder ==
    /\ [][\A c \in Calls :
            LET r == params'[c].replica
                servers == settings.SYNC_SERVERS[r]
            IN  /\ pc'[c] # pc[c] => pc'[c] \in StepsAfter(pc[c])
                /\ (pc[c] \in {"idle", "insert", "validate"} /\ pc'[c] = "done") =>
                      /\ store' = store /\ queue' = queue
                      /\ result'[c] # "OK"
                      /\ (pc[c] = "validate" =>
                            local_params[c] # Sentinel(local_params[c].yk_publicname))
                /\ (pc[c] = "replicate" /\ pc'[c] = "collect") =>
                      /\ {row.server : row \in {q \in queue'[r] :
                                q.server_nonce = ServerNonce(c)}} = Range(servers)
                      /\ \A s \in Range(servers) : fetch'[c][s].st # "idle"]_vars
    /\ [](\A c \in Calls :
            ((\E r \in Replicas : \E row \in queue[r] : row.server_nonce = ServerNonce(c))
                \/ \E s \in Servers : fetch[c][s].st # "idle")
                => (Updated(c) /\ pc[c] \in {"collect", "parse", "done"}))

\* C28's case: a call is in sync_remote with its row for each sibling in the
\* outbox, and another call has ended in step 3 with a replay error.
C28_Witness ==
    \E c, d \in Calls :
        /\ pc[c] = "collect"
        /\ {row.server : row \in OutboxOf(c)}
              = Range(settings.SYNC_SERVERS[params[c].replica])
        /\ pc[d] = "done" /\ result[d] \in Replayed /\ ~Updated(d)

\* Calls c1 and c2 submit the same OTP with two nonces and sync level 100
\* to the two replicas of a pair that list each other.
SplitSubmission ==
    /\ settings.SYNC_SERVERS = Pair
    /\ pc["c1"] # "idle" /\ pc["c2"] # "idle"
    /\ params["c1"].replica = "A" /\ params["c2"].replica = "B"
    /\ params["c1"].otp = params["c2"].otp
    /\ params["c1"].nonce # params["c2"].nonce
    /\ params["c1"].sync_level = Given(100) /\ params["c2"].sync_level = Given(100)

\* C29: the same OTP submitted to both replicas of a pair with two nonces
\* and sync level 100 is accepted by at most one of the two calls, whatever
\* the order of their reads, their updates and the sync_local calls they
\* cause on each other.
C29_SplitSubmission ==
    SplitSubmission => ~(result["c1"] = "OK" /\ result["c2"] = "OK")

\* C29's case: both calls passed their local replay check and wrote, both
\* collected the other replica's answer, and both have ended, one of them
\* with OK.
C29_Witness ==
    /\ SplitSubmission
    /\ pc["c1"] = "done" /\ pc["c2"] = "done"
    /\ Updated("c1") /\ Updated("c2")
    /\ responses["c1"] # <<>> /\ responses["c2"] # <<>>
    /\ "OK" \in {result["c1"], result["c2"]}

\* The sync level of call c by its own arguments: the argument sync_level
\* when it is given and not 0, the configured default otherwise.
OwnSyncLevel(c) ==
    IF Truthy(params[c].sync_level) THEN params[c].sync_level[1]
    ELSE settings.SYNC_LEVEL

\* C30: a call's quorum comes from its own arguments.  When replicate
\* computes the number of answers call c requires, it is the rounded share
\* of the siblings given by c's own sync level, also when another call runs
\* on the same Validator object.
C30_OwnQuorum ==
    [][\A c \in Calls :
          (pc[c] = "replicate" /\ pc'[c] # "replicate") =>
              req_answers'[c] =
                  PyRound(Len(settings.SYNC_SERVERS[params[c].replica]), OwnSyncLevel(c))]_vars

====
